---- MODULE Spec2Model ----
(***************************************************************************)
(* State-machine model of src/App.js: the BLE connection lifecycle of the  *)
(* HydroSync servo controller (scan, connect with retry, discovery and     *)
(* verification, notification subscription, command write, disconnect).    *)
(*                                                                         *)
(* React state (device, isConnected, isScanning, servoState) is committed  *)
(* after every handler step; an async function keeps the values its        *)
(* closure captured when it was invoked.  Every step between two awaits of *)
(* the source is one action.                                               *)
(***************************************************************************)
EXTENDS Integers, Sequences, FiniteSets, Bags, TLC

\* ---- bounds of the model ------------------------------------------------
MaxScans == 2      \* startScan invocations (and connectToDevice runs) per behaviour
MaxToggles == 2    \* toggleServo invocations in progress at a time

ScanIds == 1..MaxScans
ConnIds == 1..MaxScans

\* ---- strings, as sequences of characters ---------------------------------
Includes(s, sub) ==
  \E i \in 0..(Len(s) - Len(sub)) : SubSeq(s, i + 1, i + Len(sub)) = sub

Null == [null |-> TRUE, str |-> << >>]
Str(chars) == [null |-> FALSE, str |-> chars]

DEVICE_NAME == Str(<<"B", "T", "0", "5">>)

Names ==
  { Null,
    DEVICE_NAME,
    Str(<<"x", "B", "T", "0", "5", "y">>),
    Str(<<"b", "t", "0", "5">>),
    Str(<<"B", "T", "0">>),
    Str(<< >>) }

Advertisements == [name : Names, localName : Names]

\* (deviceName === DEVICE_NAME) || (localName === DEVICE_NAME) ||
\* (deviceName && deviceName.includes(DEVICE_NAME)) || (localName && ...)
Truthy(n) == ~n.null /\ Len(n.str) > 0

\* hasMatchingName with the two equality tests only
hasMatchingName_ExactOnly(scannedDevice) ==
  \/ scannedDevice.name = DEVICE_NAME
  \/ scannedDevice.localName = DEVICE_NAME

hasMatchingName(scannedDevice) ==
  \/ scannedDevice.name = DEVICE_NAME
  \/ scannedDevice.localName = DEVICE_NAME
  \/ (Truthy(scannedDevice.name) /\ Includes(scannedDevice.name.str, DEVICE_NAME.str))
  \/ (Truthy(scannedDevice.localName) /\ Includes(scannedDevice.localName.str, DEVICE_NAME.str))

\* error.message of a rejected adapter call
ErrorMessages ==
  { <<"d", "i", "s", "c", "o", "n", "n", "e", "c", "t", "e", "d">>,
    <<"n", "o", "t", " ", "c", "o", "n", "n", "e", "c", "t", "e", "d">>,
    <<"w", "a", "s", " ", "d", "i", "s", "c", "o", "n", "n", "e", "c", "t", "e", "d", "!">>,
    <<"D", "i", "s", "c", "o", "n", "n", "e", "c", "t", "e", "d">>,
    <<"t", "i", "m", "e", "o", "u", "t">> }

\* isLinkLoss testing for "disconnected" only
isLinkLoss_OnlyDisconnected(message) ==
  Includes(message, <<"d", "i", "s", "c", "o", "n", "n", "e", "c", "t", "e", "d">>)

\* error.message.includes("disconnected") || error.message.includes("not connected")
isLinkLoss(message) ==
  \/ Includes(message, <<"d", "i", "s", "c", "o", "n", "n", "e", "c", "t", "e", "d">>)
  \/ Includes(message, <<"n", "o", "t", " ", "c", "o", "n", "n", "e", "c", "t", "e", "d">>)

\* what state() can give; "rejected" stands for the promise rejecting
RadioStates == {"PoweredOn", "PoweredOff", "rejected"}

maxRetries == 2

\* GATT tables a peripheral can expose: service present, characteristic
\* present in it, and the characteristic's write capabilities.
Topologies ==
  { t \in [known : {TRUE}, svc : BOOLEAN, chr : BOOLEAN, wr : BOOLEAN, wnr : BOOLEAN] :
      /\ (t.chr => t.svc)
      /\ (t.wr => t.chr)
      /\ (t.wnr => t.chr) }

VARIABLES
  topo,             \* the peripheral's GATT table, once a discovery has read it
  device,           \* useState device: 0 = null, else the connectToDevice run that set it
  isConnected,      \* useState isConnected
  isScanning,       \* useState isScanning
  servoState,       \* useState servoState
  scan,             \* per startScan invocation: where it stands
  timeouts,         \* scan timeouts armed and neither fired nor cleared
  scanListener,     \* adapter scan: 0 = not scanning, else the startScan whose callback it feeds
  conn,             \* per connectToDevice run: position, retry bookkeeping, calls issued
  adapterConnected, \* the adapter holds an established connection to the peripheral
  pendingDisconnect,\* a disconnect event of the adapter not yet delivered
  listeners,        \* onDisconnected listeners registered on the device
  monitors,         \* notification subscriptions active in the adapter
  tog,              \* toggleServo invocations in progress: a bag of [pc, newState, scanning]
  lastCommand,      \* how the toggleServo invocation that returned last ended
  alerts,           \* "Connection Lost" prompts on screen, by the isScanning their closure captured
  disc,             \* disconnectDevice: "cancel" while cancelConnection() is awaited
  mounted,          \* the App component is mounted (its effect cleanup has not run)
  scanned           \* the scannedDevice the scan callback was last called with, where observed

vars == << topo, device, isConnected, isScanning, servoState, scan, timeouts,
           scanListener, conn, adapterConnected, pendingDisconnect, listeners,
           monitors, tog, lastCommand, alerts, disc, mounted, scanned >>

scanVars == << scan, timeouts, scanListener >>
reactVars == << device, isConnected, isScanning, servoState >>
adapterVars == << adapterConnected, pendingDisconnect, listeners, monitors >>
togVars == << tog, lastCommand >>

Unknown == [known |-> FALSE, svc |-> FALSE, chr |-> FALSE, wr |-> FALSE, wnr |-> FALSE]

NoConn == [pc |-> "new", scan |-> 0, retryCount |-> 0, attempts |-> 0,
           backoffs |-> 0, subscribed |-> FALSE]

Init ==
  /\ topo = Unknown
  /\ device = 0
  /\ isConnected = FALSE
  /\ isScanning = FALSE
  /\ servoState = FALSE
  /\ scan = [s \in ScanIds |-> "new"]
  /\ timeouts = {}
  /\ scanListener = 0
  /\ conn = [c \in ConnIds |-> NoConn]
  /\ adapterConnected = FALSE
  /\ pendingDisconnect = FALSE
  /\ listeners = 0
  /\ monitors = 0
  /\ tog = EmptyBag
  /\ lastCommand = "none"
  /\ alerts = {}
  /\ disc = "idle"
  /\ mounted = TRUE
  /\ scanned = << >>

\* the id the next invocation gets, 0 when the bound is reached
FreshScan == IF \E s \in ScanIds : scan[s] = "new"
             THEN CHOOSE s \in ScanIds : scan[s] = "new" /\ \A r \in 1..(s - 1) : scan[r] # "new"
             ELSE 0
FreshConn == IF \E c \in ConnIds : conn[c].pc = "new"
             THEN CHOOSE c \in ConnIds : conn[c].pc = "new" /\ \A r \in 1..(c - 1) : conn[r].pc # "new"
             ELSE 0

\* ---- adapter calls ------------------------------------------------------
\* bleManagerRef.current.stopDeviceScan(): the scan callback is unregistered
stopDeviceScan == scanListener' = 0

\* clearTimeout(scanTimeoutId) of startScan invocation s
clearTimeout(s) == timeouts' = timeouts \ {s}

\* the link to the peripheral drops: the adapter ends its subscriptions and
\* queues a disconnect event
LinkDown ==
  /\ adapterConnected' = FALSE
  /\ pendingDisconnect' = TRUE
  /\ monitors' = 0
  /\ UNCHANGED listeners

\* ---- connectToDevice ------------------------------------------------------
\* the call of connectToDevice(scannedDevice) by the scan callback of s: the
\* run goes up to its first await, scannedDevice.connect(...)
connectToDevice(s) ==
  /\ FreshConn # 0
  /\ conn' = [conn EXCEPT ![FreshConn] =
                [NoConn EXCEPT !.pc = "connect", !.scan = s, !.attempts = 1]]

\* catch (error) of connectToDevice, lines 327-331
ConnectCatch(c, run) ==
  /\ conn' = [conn EXCEPT ![c] = [run EXCEPT !.pc = "failed"]]
  /\ isConnected' = FALSE
  /\ device' = 0
  /\ UNCHANGED << isScanning, servoState >>

\* scannedDevice.connect() resolves: the retry loop is left and
\* discoverAllServicesAndCharacteristics() called
ConnectAttemptOk(c) ==
  /\ conn[c].pc = "connect"
  /\ ~pendingDisconnect
  /\ adapterConnected' = TRUE
  /\ conn' = [conn EXCEPT ![c].pc = "discover"]
  /\ UNCHANGED << topo, reactVars, scanVars, pendingDisconnect, listeners, monitors,
                  togVars, alerts, disc, mounted, scanned >>

\* RetryCatch giving up one attempt early
RetryCatch_OffByOne(c) ==
  IF conn[c].retryCount + 1 >= maxRetries
  THEN /\ ConnectCatch(c, [conn[c] EXCEPT !.retryCount = conn[c].retryCount + 1])
  ELSE /\ conn' = [conn EXCEPT ![c].pc = "backoff",
                               ![c].retryCount = conn[c].retryCount + 1,
                               ![c].backoffs = conn[c].backoffs + 1]
       /\ UNCHANGED reactVars

\* the inner catch (connectionError), lines 242-250: retryCount++, rethrow when
\* the retries are used up, else start the one-second wait
RetryCatch(c) ==
  IF conn[c].retryCount + 1 > maxRetries
  THEN /\ ConnectCatch(c, [conn[c] EXCEPT !.retryCount = conn[c].retryCount + 1])
  ELSE /\ conn' = [conn EXCEPT ![c].pc = "backoff",
                               ![c].retryCount = conn[c].retryCount + 1,
                               ![c].backoffs = conn[c].backoffs + 1]
       /\ UNCHANGED reactVars

\* scannedDevice.connect() rejects
ConnectAttemptFails(c) ==
  /\ conn[c].pc = "connect"
  /\ RetryCatch(c)
  /\ UNCHANGED << topo, scanVars, adapterVars, togVars, alerts, disc, mounted, scanned >>

\* the one-second wait is over: the loop condition holds, connect() is called again
BackoffElapsed(c) ==
  /\ conn[c].pc = "backoff"
  /\ conn[c].retryCount <= maxRetries
  /\ conn' = [conn EXCEPT ![c].pc = "connect", ![c].attempts = conn[c].attempts + 1]
  /\ UNCHANGED << topo, reactVars, scanVars, adapterVars, togVars, alerts, disc, mounted, scanned >>

\* lines 261-288: is the target characteristic of the target service there
Verified(table) == table.svc /\ table.chr

\* lines 290-326, reached with or without the WARNINGs of verification:
\* setDevice, setIsConnected, monitorCharacteristicForService, onDisconnected.
\* The subscription becomes active in the adapter when the link is up and the
\* characteristic exists.
Establish(c, table) ==
  /\ conn' = [conn EXCEPT ![c] = [NoConn EXCEPT !.pc = "done", !.scan = conn[c].scan,
                                                !.subscribed = TRUE]]
  /\ device' = c
  /\ isConnected' = TRUE
  /\ monitors' = IF adapterConnected /\ Verified(table) THEN monitors + 1 ELSE monitors
  /\ listeners' = listeners + 1
  /\ UNCHANGED << isScanning, servoState, adapterConnected, pendingDisconnect >>

\* discoverAllServicesAndCharacteristics(), services() and
\* characteristicsForService() resolve, lines 253-288; table is what they report
DiscoveryOk(c, table) ==
  /\ conn[c].pc = "discover"
  /\ adapterConnected
  /\ topo.known => table = topo
  /\ topo' = table
  /\ Establish(c, table)
  /\ UNCHANGED << scanVars, togVars, alerts, disc, mounted, scanned >>

\* one of the three discovery awaits rejects
DiscoveryFails(c) ==
  /\ conn[c].pc = "discover"
  /\ ConnectCatch(c, [NoConn EXCEPT !.scan = conn[c].scan])
  /\ UNCHANGED << topo, scanVars, adapterVars, togVars, alerts, disc, mounted, scanned >>

\* ---- startScan ------------------------------------------------------------
\* startScan() entered with the isScanning its closure holds, lines 140-150
startScan(s, closureIsScanning) ==
  scan' = [scan EXCEPT ![s] = IF closureIsScanning THEN "done" ELSE "check"]

\* the connect button: onPress is startScan while not connected, and the
\* button is disabled while isScanning
PressConnect ==
  /\ mounted
  /\ ~isConnected
  /\ ~isScanning
  /\ FreshScan # 0
  /\ startScan(FreshScan, isScanning)
  /\ UNCHANGED << topo, reactVars, timeouts, scanListener, conn, adapterVars, togVars,
                  alerts, disc, mounted, scanned >>

\* "Yes" of the Connection Lost prompt: startScan of the render toggleServo ran in
PressReconnect ==
  /\ mounted
  /\ FreshScan # 0
  /\ \E b \in alerts :
       /\ alerts' = alerts \ {b}
       /\ startScan(FreshScan, b)
  /\ UNCHANGED << topo, reactVars, timeouts, scanListener, conn, adapterVars, togVars,
                  disc, mounted, scanned >>

\* "No" of the prompt
DismissAlert ==
  /\ mounted
  /\ \E b \in alerts : alerts' = alerts \ {b}
  /\ UNCHANGED << topo, reactVars, scanVars, conn, adapterVars, togVars, disc, mounted, scanned >>

\* lines 168-213: setIsScanning(true), the timeout is armed, startDeviceScan
\* registers this invocation's callback (the adapter drops the one it had);
\* when startDeviceScan throws, the catch sets isScanning back
BeginScan(s, throws) ==
  /\ timeouts' = timeouts \cup {s}
  /\ scan' = [scan EXCEPT ![s] = "done"]
  /\ IF throws
     THEN /\ isScanning' = FALSE
          /\ UNCHANGED scanListener
     ELSE /\ isScanning' = TRUE
          /\ scanListener' = s

\* Preconditions without the test of the radio state
Preconditions_NoRadioCheck(s, granted, state, throws) ==
  IF ~granted
  THEN /\ scan' = [scan EXCEPT ![s] = "refused"]
       /\ UNCHANGED << isScanning, timeouts, scanListener >>
  ELSE IF state = "rejected"
  THEN /\ scan' = [scan EXCEPT ![s] = "done"]
       /\ isScanning' = FALSE
       /\ UNCHANGED << timeouts, scanListener >>
  ELSE BeginScan(s, throws)

\* requestPermissions() and state() have resolved, lines 150-166 (state =
\* "rejected": state() rejects and the catch runs)
Preconditions(s, granted, state, throws) ==
  IF ~granted \/ state \notin {"PoweredOn", "rejected"}
  THEN /\ scan' = [scan EXCEPT ![s] = "refused"]
       /\ UNCHANGED << isScanning, timeouts, scanListener >>
  ELSE IF state = "rejected"
  THEN /\ scan' = [scan EXCEPT ![s] = "done"]
       /\ isScanning' = FALSE
       /\ UNCHANGED << timeouts, scanListener >>
  ELSE BeginScan(s, throws)

CheckResult(s, granted, state, throws) ==
  /\ scan[s] = "check"
  /\ Preconditions(s, granted, state, throws)
  /\ UNCHANGED << topo, device, isConnected, servoState, conn, adapterVars, togVars,
                  alerts, disc, mounted, scanned >>

\* ScanTimeout without setIsScanning(false)
ScanTimeout_KeepFlag(s) ==
  /\ s \in timeouts
  /\ timeouts' = timeouts \ {s}
  /\ stopDeviceScan
  /\ UNCHANGED << topo, reactVars, scan, conn, adapterVars, togVars, alerts, disc,
                  mounted, scanned >>

\* the setTimeout callback of invocation s, lines 171-177
ScanTimeout(s) ==
  /\ s \in timeouts
  /\ timeouts' = timeouts \ {s}
  /\ stopDeviceScan
  /\ isScanning' = FALSE
  /\ UNCHANGED << topo, device, isConnected, servoState, scan, conn, adapterVars,
                  togVars, alerts, disc, mounted, scanned >>

\* the scan callback called with an error, lines 183-188
OnScanError(s) ==
  /\ clearTimeout(s)
  /\ isScanning' = FALSE
  /\ UNCHANGED scanListener

ScanError(s) ==
  /\ scanListener = s
  /\ OnScanError(s)
  /\ UNCHANGED << topo, device, isConnected, servoState, scan, conn, adapterVars,
                  togVars, alerts, disc, mounted, scanned >>

\* OnMatch without the stopDeviceScan() call
OnMatch_NoStop(s) ==
  /\ clearTimeout(s)
  /\ UNCHANGED scanListener
  /\ isScanning' = FALSE
  /\ connectToDevice(s)

\* the scan callback on a matching advertisement, lines 204-210
OnMatch(s) ==
  /\ clearTimeout(s)
  /\ stopDeviceScan
  /\ isScanning' = FALSE
  /\ connectToDevice(s)

\* the scan callback called with a scanned device, lines 190-211
ScanCallback(s, scannedDevice) ==
  /\ scanListener = s
  /\ IF hasMatchingName(scannedDevice)
     THEN OnMatch(s)
     ELSE UNCHANGED << isScanning, timeouts, scanListener, conn >>
  /\ UNCHANGED << topo, device, isConnected, servoState, scan, adapterVars, togVars,
                  alerts, disc, mounted >>

ScanResult(s, scannedDevice) ==
  /\ ScanCallback(s, scannedDevice)
  /\ UNCHANGED scanned

\* the same call, keeping the advertisement it was given
ScanResultObserved(s, scannedDevice) ==
  /\ ScanCallback(s, scannedDevice)
  /\ scanned' = << scannedDevice >>


\* ---- adapter events -------------------------------------------------------
\* the peripheral goes away on its own
UnsolicitedDisconnect ==
  /\ adapterConnected
  /\ LinkDown
  /\ UNCHANGED << topo, reactVars, scanVars, conn, togVars, alerts, disc, mounted, scanned >>

\* the onDisconnected handler, lines 320-326
onDisconnected ==
  /\ isConnected' = FALSE
  /\ device' = 0
  /\ servoState' = FALSE
  /\ UNCHANGED isScanning

\* the adapter's disconnect event reaches the listeners registered so far
DeliverDisconnect ==
  /\ pendingDisconnect
  /\ pendingDisconnect' = FALSE
  /\ IF listeners > 0 THEN onDisconnected ELSE UNCHANGED reactVars
  /\ UNCHANGED << topo, scanVars, conn, adapterConnected, listeners, monitors, togVars,
                  alerts, disc, mounted, scanned >>

\* ---- teardown ---------------------------------------------------------------
\* the device the cleanup closure of useEffect(..., []) holds: the effect ran
\* once, in the first render, where device was null
EffectDevice == 0

\* the cleanup of the effect, lines 88-97: stopDeviceScan(), and
\* cancelConnection() on the closure's device if it has one.  The buttons are
\* gone afterwards; calls already under way go on.
Unmount ==
  /\ mounted
  /\ mounted' = FALSE
  /\ stopDeviceScan
  /\ IF EffectDevice # 0 /\ adapterConnected
     THEN LinkDown
     ELSE UNCHANGED adapterVars
  /\ UNCHANGED << topo, reactVars, scan, timeouts, conn, togVars, alerts, disc, scanned >>

\* ---- disconnectDevice -------------------------------------------------------
\* disconnectDevice() entered, lines 335-339: with a device cancelConnection()
\* is awaited, without one the call returns at once
DisconnectCall ==
  /\ mounted
  /\ disc = "idle"
  /\ disc' = IF device # 0 THEN "cancel" ELSE "idle"
  /\ UNCHANGED << topo, reactVars, scanVars, conn, adapterVars, togVars, alerts, mounted, scanned >>

\* cancelConnection() has resolved: nothing follows the await in the try block
AfterCancel ==
  /\ disc' = "idle"
  /\ UNCHANGED reactVars

CancelOk ==
  /\ disc = "cancel"
  /\ adapterConnected
  /\ LinkDown
  /\ AfterCancel
  /\ UNCHANGED << topo, scanVars, conn, togVars, alerts, mounted, scanned >>

\* cancelConnection() rejects: catch of disconnectDevice, lines 340-345
CancelFails ==
  /\ disc = "cancel"
  /\ disc' = "idle"
  /\ isConnected' = FALSE
  /\ device' = 0
  /\ servoState' = FALSE
  /\ UNCHANGED << topo, isScanning, scanVars, conn, adapterVars, togVars, alerts, mounted, scanned >>

\* ---- toggleServo ------------------------------------------------------------
Move(from, to) == (tog (-) SetToBag({from})) (+) SetToBag({to})
Return(from) == tog (-) SetToBag({from})

\* toggleServo() entered, lines 350-363: rejected without a connected device,
\* else newState is fixed and device.services() awaited
ToggleCall ==
  /\ mounted
  /\ IF device = 0 \/ ~isConnected
     THEN /\ lastCommand' = "rejected"
          /\ UNCHANGED tog
     ELSE /\ BagCardinality(tog) < MaxToggles
          /\ tog' = tog (+) SetToBag({[pc |-> "verify", newState |-> ~servoState,
                                      scanning |-> isScanning]})
          /\ UNCHANGED lastCommand
  /\ UNCHANGED << topo, reactVars, scanVars, conn, adapterVars, alerts, disc, mounted, scanned >>

\* writeType preferring the write without response
writeType_PreferWithoutResponse(characteristic) ==
  IF characteristic.wnr THEN "withoutResponse" ELSE "withResponse"

\* const writeType = isWritableWithResponse ? 'withResponse' : 'withoutResponse'
writeType(characteristic) ==
  IF characteristic.wr THEN "withResponse" ELSE "withoutResponse"

\* VerifyAndWrite without the two "not available" returns
VerifyAndWrite_NoCheck(r) ==
  /\ tog' = Move(r, [r EXCEPT !.pc = writeType(topo)])
  /\ UNCHANGED << lastCommand, servoState >>

\* VerifyAndWrite with setServoState(newState) moved before the write
VerifyAndWrite_Optimistic(r) ==
  /\ IF Verified(topo)
     THEN /\ tog' = Move(r, [r EXCEPT !.pc = writeType(topo)])
          /\ servoState' = r.newState
          /\ UNCHANGED lastCommand
     ELSE /\ tog' = Return(r)
          /\ lastCommand' = "gated"
          /\ UNCHANGED servoState

\* services() and characteristicsForService() have resolved, lines 364-397:
\* without the target service or characteristic the call returns, else the
\* write of the chosen mode is issued
VerifyAndWrite(r) ==
  /\ IF Verified(topo)
     THEN /\ tog' = Move(r, [r EXCEPT !.pc = writeType(topo)])
          /\ UNCHANGED lastCommand
     ELSE /\ tog' = Return(r)
          /\ lastCommand' = "gated"
  /\ UNCHANGED servoState

ToggleVerify(r) ==
  /\ r \in BagToSet(tog)
  /\ r.pc = "verify"
  /\ VerifyAndWrite(r)
  /\ UNCHANGED << topo, device, isConnected, isScanning, scanVars, conn, adapterVars,
                  alerts, disc, mounted, scanned >>

\* the write has resolved, lines 399-400
AfterWrite(r) ==
  /\ servoState' = r.newState
  /\ tog' = Return(r)
  /\ lastCommand' = "ok"

WriteOk(r) ==
  /\ r \in BagToSet(tog)
  /\ \/ r.pc = "withResponse" /\ topo.wr
     \/ r.pc = "withoutResponse" /\ topo.wnr
  /\ adapterConnected
  /\ ~pendingDisconnect
  /\ AfterWrite(r)
  /\ UNCHANGED << topo, device, isConnected, isScanning, scanVars, conn, adapterVars,
                  alerts, disc, mounted, scanned >>

\* catch (error) of toggleServo, lines 401-422
ToggleCatch(r, message) ==
  /\ tog' = Return(r)
  /\ IF isLinkLoss(message)
     THEN /\ lastCommand' = "linklost"
          /\ isConnected' = FALSE
          /\ device' = 0
          /\ alerts' = alerts \cup {r.scanning}
          /\ UNCHANGED << isScanning, servoState >>
     ELSE /\ lastCommand' = "failed"
          /\ UNCHANGED << reactVars, alerts >>

\* one of the awaits of toggleServo rejects
ToggleFails(r, message) ==
  /\ r \in BagToSet(tog)
  /\ ToggleCatch(r, message)
  /\ UNCHANGED << topo, scanVars, conn, adapterVars, disc, mounted, scanned >>

\* ---- the program ------------------------------------------------------------
Next ==
  \/ PressConnect
  \/ PressReconnect
  \/ DismissAlert
  \/ \E s \in ScanIds, granted \in BOOLEAN, state \in RadioStates, throws \in BOOLEAN :
       CheckResult(s, granted, state, throws)
  \/ \E s \in ScanIds : ScanTimeout(s)
  \/ \E s \in ScanIds : ScanError(s)
  \/ \E s \in ScanIds, scannedDevice \in Advertisements : ScanResult(s, scannedDevice)
  \/ \E c \in ConnIds : ConnectAttemptOk(c)
  \/ \E c \in ConnIds : ConnectAttemptFails(c)
  \/ \E c \in ConnIds : BackoffElapsed(c)
  \/ \E c \in ConnIds, table \in Topologies : DiscoveryOk(c, table)
  \/ \E c \in ConnIds : DiscoveryFails(c)
  \/ UnsolicitedDisconnect
  \/ DeliverDisconnect
  \/ DisconnectCall
  \/ CancelOk
  \/ CancelFails
  \/ ToggleCall
  \/ \E r \in BagToSet(tog) : ToggleVerify(r)
  \/ \E r \in BagToSet(tog) : WriteOk(r)
  \/ \E r \in BagToSet(tog), message \in ErrorMessages : ToggleFails(r, message)
  \/ Unmount

Spec == Init /\ [][Next]_vars


\* ---- parts of the program ---------------------------------------------------
\* Scanner and Connector alone: no command is sent (so no reconnect prompt)
NextScan ==
  \/ PressConnect
  \/ \E s \in ScanIds, granted \in BOOLEAN, state \in RadioStates, throws \in BOOLEAN :
       CheckResult(s, granted, state, throws)
  \/ \E s \in ScanIds : ScanTimeout(s)
  \/ \E s \in ScanIds : ScanError(s)
  \/ \E s \in ScanIds, scannedDevice \in Advertisements : ScanResult(s, scannedDevice)
  \/ \E c \in ConnIds : ConnectAttemptOk(c)
  \/ \E c \in ConnIds : ConnectAttemptFails(c)
  \/ \E c \in ConnIds : BackoffElapsed(c)
  \/ \E c \in ConnIds, table \in Topologies : DiscoveryOk(c, table)
  \/ \E c \in ConnIds : DiscoveryFails(c)
  \/ UnsolicitedDisconnect
  \/ DeliverDisconnect
  \/ DisconnectCall
  \/ CancelOk
  \/ CancelFails
  \/ Unmount

SpecScan == Init /\ [][NextScan]_vars

\* one Session: the user starts a single scan, and once it has led to a
\* connection sends commands and disconnects at will
NextSession ==
  \/ FreshScan = 1 /\ PressConnect
  \/ DismissAlert
  \/ \E s \in ScanIds, granted \in BOOLEAN, state \in RadioStates, throws \in BOOLEAN :
       CheckResult(s, granted, state, throws)
  \/ \E s \in ScanIds : ScanTimeout(s)
  \/ \E s \in ScanIds : ScanError(s)
  \/ \E s \in ScanIds, scannedDevice \in Advertisements : ScanResult(s, scannedDevice)
  \/ \E c \in ConnIds : ConnectAttemptOk(c)
  \/ \E c \in ConnIds : ConnectAttemptFails(c)
  \/ \E c \in ConnIds : BackoffElapsed(c)
  \/ \E c \in ConnIds, table \in Topologies : DiscoveryOk(c, table)
  \/ \E c \in ConnIds : DiscoveryFails(c)
  \/ UnsolicitedDisconnect
  \/ DeliverDisconnect
  \/ DisconnectCall
  \/ CancelOk
  \/ CancelFails
  \/ ToggleCall
  \/ \E r \in BagToSet(tog) : ToggleVerify(r)
  \/ \E r \in BagToSet(tog) : WriteOk(r)
  \/ \E r \in BagToSet(tog), message \in ErrorMessages : ToggleFails(r, message)
  \/ Unmount

SpecSession == Init /\ [][NextSession]_vars

\* the Scanner alone, with the advertisements it is given observed
NextMatch ==
  \/ PressConnect
  \/ \E s \in ScanIds, granted \in BOOLEAN, state \in RadioStates, throws \in BOOLEAN :
       CheckResult(s, granted, state, throws)
  \/ \E s \in ScanIds : ScanTimeout(s)
  \/ \E s \in ScanIds : ScanError(s)
  \/ \E s \in ScanIds, scannedDevice \in Advertisements :
       ScanResultObserved(s, scannedDevice)

SpecMatch == Init /\ [][NextMatch]_vars

\* the Scanner with the timers of the runtime: a timeout that is armed and not
\* cleared fires
SpecTimer ==
  /\ Init
  /\ [][NextMatch]_vars
  /\ \A s \in ScanIds : WF_vars(ScanTimeout(s))


\* ---- properties -------------------------------------------------------------
ConnectsOf(s) == {c \in ConnIds : conn[c].scan = s}
Writing(r) == r.pc \in {"withResponse", "withoutResponse"}
WritesInFlight == {r \in BagToSet(tog) : Writing(r)}
Idle == device = 0 /\ ~isConnected

\* C1: no subscribe call (monitorCharacteristicForService) is issued by a
\* connectToDevice run whose discovery lacks the expected service or
\* characteristic.
C1_SubscribeGated ==
  \A c \in ConnIds : conn[c].subscribed => Verified(topo)

\* C2: while the expected service or characteristic is absent, toggleServo
\* never has an adapter write in flight, and no step of toggleServo changes
\* the tracked actuator state.
C2_ToggleGated ==
  /\ [](~Verified(topo) => WritesInFlight = {})
  /\ [][(~Verified(topo) /\ togVars' # togVars) => servoState' = servoState]_vars

\* toggleServo has returned at the verification of a device that has the
\* service but not the characteristic
C2_Witness ==
  /\ topo.known /\ topo.svc /\ ~topo.chr
  /\ lastCommand = "gated"
  /\ isConnected

\* C3: startScan goes ahead only from Idle (no other startScan, scan or
\* connect in progress, not connected), so that at most one pipeline is in
\* progress and the state is never both scanning and connected.
PipelineBusy(s) ==
  \/ scan[s] = "check"
  \/ scanListener = s
  \/ \E c \in ConnIds : conn[c].scan = s /\ conn[c].pc \in {"connect", "backoff", "discover"}

C3_SinglePipeline ==
  /\ [](Cardinality({s \in ScanIds : PipelineBusy(s)}) <= 1)
  /\ [](~(isScanning /\ isConnected))
  /\ [][\A s \in ScanIds :
          (scan[s] = "new" /\ scan'[s] = "check") =>
            (~isConnected /\ ~isScanning /\ \A r \in ScanIds : ~PipelineBusy(r))]_vars

C5_RetryBound ==
  /\ [](\A c \in ConnIds :
          /\ conn[c].attempts <= maxRetries + 1
          /\ conn[c].pc = "connect" =>
               conn[c].backoffs = conn[c].attempts - 1
          /\ conn[c].pc = "backoff" =>
               conn[c].backoffs = conn[c].attempts /\ conn[c].attempts <= maxRetries
          /\ conn[c].pc = "discover" =>
               conn[c].backoffs = conn[c].attempts - 1
          /\ (conn[c].pc = "failed" /\ conn[c].attempts > 0) =>
               /\ conn[c].attempts = maxRetries + 1
               /\ conn[c].backoffs = maxRetries)
  /\ [][\A c \in ConnIds :
          /\ conn[c].pc = "failed" => conn'[c] = conn[c]
          /\ conn'[c].attempts > conn[c].attempts =>
               conn[c].pc \in {"new", "backoff"}]_vars

\* one run has failed at its third attempt and another has reached discovery
\* at its third attempt
C5_Witness ==
  /\ \E c \in ConnIds : conn[c].pc = "failed" /\ conn[c].attempts = maxRetries + 1
  /\ \E c \in ConnIds : conn[c].pc = "discover" /\ conn[c].attempts = maxRetries + 1

\* C6: whenever the scanning flag is false, the adapter has no active scan and
\* no scan timeout is pending.
C6_NoLeakedScan ==
  ~isScanning => (scanListener = 0 /\ timeouts = {})

\* C7: whenever the session is not connected, the device is cleared and the
\* tracked actuator state is off.
C7_DisconnectedIsReset ==
  ~isConnected => (device = 0 /\ ~servoState)

\* C8: when disconnectDevice returns from cancelConnection(), resolved or
\* rejected, the device is cleared and the connected flag is false.
C8_DisconnectLeavesIdle ==
  [][(disc = "cancel" /\ disc' = "idle") => Idle']_vars

\* C9: every call of disconnectDevice leaves the state Idle with the actuator
\* off: a call without a device returns at once and changes nothing, so the
\* state is Idle and off whenever there is no device; a call with a device is
\* Idle and off when it returns.
C9_DisconnectIdempotent ==
  /\ [](device = 0 => (~isConnected /\ ~servoState))
  /\ [][(disc = "cancel" /\ disc' = "idle") => (Idle' /\ ~servoState')]_vars

\* C10: a step of toggleServo changes the tracked actuator state only when it
\* is the return of a resolved write, and that step sets the state to the
\* value the invocation commanded.
WriteResolved(r) ==
  /\ Writing(r)
  /\ tog' = tog (-) SetToBag({r})
  /\ lastCommand' = "ok"

C10_StateAfterWrite ==
  [][togVars' # togVars =>
       /\ servoState' # servoState => \E r \in BagToSet(tog) : WriteResolved(r)
       /\ \A r \in BagToSet(tog) : WriteResolved(r) => servoState' = r.newState]_vars

\* a command has been written and the actuator state follows it
C10_Witness ==
  lastCommand = "ok" /\ servoState /\ isConnected

\* C11: at most one adapter write of toggleServo is in flight at any time.
WriteCount == BagCardinality([r \in WritesInFlight |-> CopiesIn(r, tog)])

C11_SerializedWrites ==
  WriteCount <= 1

\* C12: whenever the session is connected, exactly one notification
\* subscription is active in the adapter and exactly one onDisconnected
\* listener is registered.
C12_OneSubscription ==
  isConnected => (monitors = 1 /\ listeners = 1)

\* C14: when the verified characteristic is writable neither with nor without
\* response, toggleServo has no adapter write in flight.
C14_NotWritable ==
  (Verified(topo) /\ ~topo.wr /\ ~topo.wnr) => WritesInFlight = {}

\* C16: the step of the teardown leaves no adapter scan active and, when a
\* device is connected, no established connection in the adapter.
C16_TeardownReleases ==
  [][(mounted /\ ~mounted') =>
       /\ scanListener' = 0
       /\ (device # 0 => ~adapterConnected')]_vars

\* C20: whenever the local state is Idle and nothing is in progress (no scan,
\* no connect, no command, no disconnect, no event pending), the adapter
\* holds no established connection.
Quiescent ==
  /\ \A s \in ScanIds : ~PipelineBusy(s)
  /\ tog = EmptyBag
  /\ disc = "idle"
  /\ ~pendingDisconnect

C20_AdapterAgrees ==
  (Idle /\ Quiescent) => ~adapterConnected

\* C13: the write toggleServo issues is with response whenever the
\* characteristic is writable with response (also when it is writable without
\* response as well) and without response when it is only writable without
\* response; an invocation issues one write, when it leaves verification, and
\* a command succeeds only as the return of that one write.
InMode(mode) ==
  BagCardinality([r \in {q \in BagToSet(tog) : q.pc = mode} |-> CopiesIn(r, tog)])

C13_WriteMode ==
  /\ [](\A r \in WritesInFlight :
          /\ topo.wr => r.pc = "withResponse"
          /\ (~topo.wr /\ topo.wnr) => r.pc = "withoutResponse")
  /\ [][/\ InMode("withResponse")' + InMode("withoutResponse")' <= WriteCount + 1
        /\ InMode("withResponse")' + InMode("withoutResponse")' > WriteCount =>
             /\ InMode("verify")' = InMode("verify") - 1
             /\ InMode("withResponse")' >= InMode("withResponse")
             /\ InMode("withoutResponse")' >= InMode("withoutResponse")
        /\ (BagCardinality(tog') < BagCardinality(tog) /\ lastCommand' = "ok") =>
             /\ InMode("withResponse")' + InMode("withoutResponse")' = WriteCount - 1
             /\ InMode("verify")' = InMode("verify")]_vars

\* a command to a characteristic with both capabilities has been written with
\* response
C13_Witness ==
  /\ topo.wr /\ topo.wnr
  /\ lastCommand = "ok"
  /\ \E r \in BagToSet(tog) : r.pc = "withResponse"

\* C15: a failure of toggleServo whose message contains "disconnected" or
\* "not connected" sets connected false, clears the device and raises the
\* reconnect prompt; a failure with any other message leaves the connected
\* flag, the device, the actuator state and the prompts as they were.
ContainsLinkLoss(message) ==
  \E i \in 1..Len(message) :
    \/ i + 11 <= Len(message) /\ SubSeq(message, i, i + 11) = <<"d", "i", "s", "c", "o", "n", "n", "e", "c", "t", "e", "d">>
    \/ i + 12 <= Len(message) /\ SubSeq(message, i, i + 12) = <<"n", "o", "t", " ", "c", "o", "n", "n", "e", "c", "t", "e", "d">>

C15_LinkLossClassified ==
  [][\A r \in BagToSet(tog), message \in ErrorMessages :
       ToggleFails(r, message) =>
         IF ContainsLinkLoss(message)
         THEN /\ ~isConnected'
              /\ device' = 0
              /\ r.scanning \in alerts'
              /\ lastCommand' = "linklost"
         ELSE /\ UNCHANGED << isConnected, device, servoState, alerts >>
              /\ lastCommand' = "failed"]_vars

\* a write has failed with a link-loss message on a connected session: the
\* prompt is up and the session disconnected while the adapter still holds
\* the connection
C15_Witness ==
  /\ lastCommand = "linklost"
  /\ alerts # {}
  /\ ~isConnected
  /\ device = 0
  /\ adapterConnected

\* C17: when requestPermissions() gives false or state() gives a state other
\* than PoweredOn, startScan returns without registering a scan callback in
\* the adapter, without arming a timeout and without touching the scanning
\* flag.
C17_ScanPreconditions ==
  [][\A s \in ScanIds, granted \in BOOLEAN, state \in RadioStates \ {"rejected"},
        throws \in BOOLEAN :
       (CheckResult(s, granted, state, throws) /\ (~granted \/ state # "PoweredOn")) =>
          /\ UNCHANGED << scanListener, timeouts, isScanning >>
          /\ scan'[s] = "refused"]_vars

\* a startScan has been refused at its preconditions and nothing was started
C17_Witness ==
  /\ \E s \in ScanIds : scan[s] = "refused"
  /\ scanListener = 0
  /\ timeouts = {}
  /\ ~isScanning

\* C19: the scan callback selects an advertisement (stops the scan and starts
\* connectToDevice) exactly when its name or its local name equals or
\* contains "BT05", case-sensitively; an advertisement with both fields
\* absent or not matching is never selected.
ContainsTarget(n) ==
  /\ ~n.null
  /\ \E i \in 1..Len(n.str) :
       /\ i + 3 <= Len(n.str)
       /\ n.str[i] = "B" /\ n.str[i + 1] = "T" /\ n.str[i + 2] = "0" /\ n.str[i + 3] = "5"

Selected(s) ==
  /\ Cardinality(ConnectsOf(s)') = Cardinality(ConnectsOf(s)) + 1
  /\ scanListener' = 0
  /\ s \notin timeouts'
  /\ ~isScanning'

C19_NameMatch ==
  [][scanned' # scanned =>
       IF ContainsTarget(scanned'[1].name) \/ ContainsTarget(scanned'[1].localName)
       THEN \E s \in ScanIds : s = scanListener /\ Selected(s)
       ELSE UNCHANGED << conn, scanListener, timeouts, isScanning >>]_vars

\* an advertisement that carries the target inside its local name only has
\* been selected
C19_Witness ==
  /\ scanned # << >>
  /\ scanned[1].name = Null
  /\ scanned[1].localName = Str(<<"x", "B", "T", "0", "5", "y">>)
  /\ \E c \in ConnIds : conn[c].pc = "connect"
  /\ scanListener = 0

\* C18: the timeout armed by a scan does not stay armed for ever, and it is
\* disarmed only by its firing (the adapter scan is stopped, the scanning flag
\* false, no connect started), by the match or by the adapter error of its
\* scan; a match or error of a scan leaves its timeout disarmed, and a
\* disarmed timeout is never armed again.
Fired(s) ==
  /\ scanListener' = 0
  /\ ~isScanning'
  /\ conn' = conn

Matched(s) ==
  /\ scanListener = s
  /\ Cardinality(ConnectsOf(s)') = Cardinality(ConnectsOf(s)) + 1

C18_ScanBounded ==
  /\ \A s \in ScanIds : (s \in timeouts) ~> (s \notin timeouts)
  /\ [][\A s \in ScanIds :
          /\ (s \in timeouts /\ s \notin timeouts') =>
               (Fired(s) \/ Matched(s) \/ ScanError(s))
          /\ (Matched(s) \/ ScanError(s)) => s \notin timeouts'
          /\ (s \notin timeouts /\ scan[s] \notin {"new", "check"}) =>
               s \notin timeouts']_vars

\* the timeout of the only scan started so far has fired: no scan, no
\* timeout, no connect
C18_Witness ==
  /\ mounted
  /\ scan[1] = "done"
  /\ \A s \in ScanIds \ {1} : scan[s] = "new"
  /\ timeouts = {}
  /\ scanListener = 0
  /\ ~isScanning
  /\ \A c \in ConnIds : conn[c].pc = "new"

====
